---- MODULE Spec2Model ----
(***************************************************************************)
(* Model of verification/verify_notes_load.py: a single run of the script. *)
(*                                                                         *)
(* The script is one linear sequence of library calls.  Each call that     *)
(* talks to the browser may return or raise; an exception raised inside    *)
(* verify_notes_load propagates through the try/finally of __main__        *)
(* (which runs browser.close()) and then through the exit of the           *)
(* `with sync_playwright()` block.  time.sleep, print and browser.close    *)
(* are taken to return.                                                    *)
(*                                                                         *)
(* The environment is the development server (up or down) and the time     *)
(* the application needs, after navigation has returned, to render the     *)
(* onboarding text in a fresh browsing context.                            *)
(***************************************************************************)
EXTENDS Integers, Sequences, FiniteSets

\* ---- bounds of the model ----
\* largest time (seconds) the application may need to render the text
MaxRenderDelay == 4
\* largest time (seconds) the screenshot call may take
MaxCallTime == 1

\* ---- program constants ----
Url == "http://localhost:5173"
SleepSeconds == 2
ScreenshotPath == "/home/jules/verification/initial_load.png"
OnboardingText == "Welcome to Pinn"
MsgOnboarding == "Onboarding visible"
MsgNotOnboarding == "Not on onboarding?"

\* the calls of a run, in program order
StepOrder ==
  << "launch", "new_page", "goto", "sleep", "screenshot", "is_visible",
     "print", "close" >>

StepIndex(s) == CHOOSE i \in 1..Len(StepOrder) : StepOrder[i] = s

\* the calls made on the page handle
PageOps == {"goto", "screenshot", "is_visible"}

\* the calls of verify_notes_load that may raise
BodySteps == {"goto", "screenshot", "is_visible"}

VARIABLES
  pc,          \* the next statement of the script
  outcome,     \* "running", "ok" (normal exit) or "error" (uncaught exception)
  pending,     \* an exception is propagating
  failedAt,    \* the call that raised, or "none"
  playwright,  \* the sync_playwright driver: "none", "running", "stopped"
  browser,     \* the browser handle: "none", "open", "closed"
  page,        \* the page handle: "none", "open"
  visited,     \* the URLs navigation was attempted to, in order
  elapsed,     \* seconds since navigation returned
  files,       \* the files written by the run
  visible,     \* result of the visibility check: "unknown", "yes", "no"
  stdout,      \* the lines printed
  log,         \* the calls executed so far, in order
  serverUp,    \* environment: the development server is listening
  renderDelay  \* environment: seconds the app needs to show the text

vars ==
  << pc, outcome, pending, failedAt, playwright, browser, page, visited,
     elapsed, files, visible, stdout, log, serverUp, renderDelay >>

env == << serverUp, renderDelay >>

\* The onboarding text of a fresh browsing context (empty localStorage) is
\* on screen once the application has had renderDelay seconds to render.
TextVisible(delay, t) == delay <= t

Init ==
  /\ pc = "start"
  /\ outcome = "running"
  /\ pending = FALSE
  /\ failedAt = "none"
  /\ playwright = "none"
  /\ browser = "none"
  /\ page = "none"
  /\ visited = << >>
  /\ elapsed = 0
  /\ files = {}
  /\ visible = "unknown"
  /\ stdout = << >>
  /\ log = << >>
  /\ serverUp \in BOOLEAN
  /\ renderDelay \in 0..MaxRenderDelay

\* ---- exception propagation ----

\* mutant: the body's exception is swallowed (try/except: pass)
RaiseCaught(step) ==
  /\ pending' = FALSE
  /\ failedAt' = step
  /\ pc' = "close"

\* mutant: no finally block, the exception leaves the with block directly
RaiseSkipsFinally(step) ==
  /\ pending' = TRUE
  /\ failedAt' = step
  /\ pc' = "with_exit"

\* A call inside verify_notes_load raises: nothing in the body catches it,
\* control goes to the finally block of __main__ with the exception pending.
Raise(step) ==
  /\ pending' = TRUE
  /\ failedAt' = step
  /\ pc' = "close"

\* ---- the statements of __main__ ----

\* with sync_playwright() as p:   (entering the block)
StartPlaywright ==
  /\ pc = "start"
  /\ \E ok \in BOOLEAN :
       IF ok
       THEN /\ playwright' = "running"
            /\ pc' = "launch"
            /\ UNCHANGED << outcome, pending, failedAt >>
       ELSE /\ playwright' = "none"
            /\ pending' = TRUE
            /\ failedAt' = "start"
            /\ outcome' = "error"
            /\ pc' = "exit"
  /\ UNCHANGED << browser, page, visited, elapsed, files, visible, stdout,
                  log, env >>

\* browser = p.chromium.launch(headless=True)
Launch ==
  /\ pc = "launch"
  /\ log' = Append(log, "launch")
  /\ \E ok \in BOOLEAN :
       IF ok
       THEN /\ browser' = "open"
            /\ pc' = "new_page"
            /\ UNCHANGED << pending, failedAt >>
       ELSE /\ browser' = browser
            /\ pending' = TRUE
            /\ failedAt' = "launch"
            /\ pc' = "with_exit"
  /\ UNCHANGED << outcome, playwright, page, visited, elapsed, files,
                  visible, stdout, env >>

\* mutant: new_page called inside the try block
NewPageInsideTry ==
  /\ pc = "new_page"
  /\ log' = Append(log, "new_page")
  /\ \E ok \in BOOLEAN :
       IF ok
       THEN /\ page' = "open"
            /\ pc' = "goto"
            /\ UNCHANGED << pending, failedAt >>
       ELSE /\ page' = page
            /\ pending' = TRUE
            /\ failedAt' = "new_page"
            /\ pc' = "close"
  /\ UNCHANGED << outcome, playwright, browser, visited, elapsed, files,
                  visible, stdout, env >>

\* page = browser.new_page()   (outside the try block)
NewPage ==
  /\ pc = "new_page"
  /\ log' = Append(log, "new_page")
  /\ \E ok \in BOOLEAN :
       IF ok
       THEN /\ page' = "open"
            /\ pc' = "goto"
            /\ UNCHANGED << pending, failedAt >>
       ELSE /\ page' = page
            /\ pending' = TRUE
            /\ failedAt' = "new_page"
            /\ pc' = "with_exit"
  /\ UNCHANGED << outcome, playwright, browser, visited, elapsed, files,
                  visible, stdout, env >>

\* ---- the statements of verify_notes_load ----

\* mutant: a failed navigation is swallowed and the body carries on
GotoSwallows ==
  /\ pc = "goto"
  /\ log' = Append(log, "goto")
  /\ visited' = Append(visited, Url)
  /\ pc' = "sleep"
  /\ elapsed' = 0
  /\ UNCHANGED << outcome, pending, failedAt, playwright, browser, page,
                  files, visible, stdout, env >>

\* mutant: a failed navigation is retried once
GotoRetry ==
  /\ pc = "goto"
  /\ log' = Append(log, "goto")
  /\ visited' = Append(visited, Url)
  /\ \E ok \in (IF serverUp THEN BOOLEAN ELSE {FALSE}) :
       IF ok
       THEN /\ pc' = "sleep"
            /\ UNCHANGED << pending, failedAt >>
       ELSE IF Len(visited) = 0
            THEN /\ pc' = "goto"
                 /\ UNCHANGED << pending, failedAt >>
            ELSE Raise("goto")
  /\ elapsed' = 0
  /\ UNCHANGED << outcome, playwright, browser, page, files, visible,
                  stdout, env >>

\* mutant: a failed navigation blocks forever instead of raising
GotoHangs ==
  /\ pc = "goto"
  /\ \E ok \in (IF serverUp THEN BOOLEAN ELSE {FALSE}) :
       IF ok
       THEN /\ pc' = "sleep"
            /\ log' = Append(log, "goto")
            /\ visited' = Append(visited, Url)
            /\ UNCHANGED << pending, failedAt >>
       ELSE UNCHANGED << pc, log, visited, pending, failedAt >>
  /\ elapsed' = 0
  /\ UNCHANGED << outcome, playwright, browser, page, files, visible,
                  stdout, env >>

\* page.goto("http://localhost:5173")
Goto ==
  /\ pc = "goto"
  /\ log' = Append(log, "goto")
  /\ visited' = Append(visited, Url)
  /\ \E ok \in (IF serverUp THEN BOOLEAN ELSE {FALSE}) :
       IF ok
       THEN /\ pc' = "sleep"
            /\ UNCHANGED << pending, failedAt >>
       ELSE Raise("goto")
  /\ elapsed' = 0
  /\ UNCHANGED << outcome, playwright, browser, page, files, visible,
                  stdout, env >>

\* mutant: the sleep is dropped
SleepSkipped ==
  /\ pc = "sleep"
  /\ log' = Append(log, "sleep")
  /\ elapsed' = elapsed
  /\ pc' = "screenshot"
  /\ UNCHANGED << outcome, pending, failedAt, playwright, browser, page,
                  visited, files, visible, stdout, env >>

\* time.sleep(2)
Sleep ==
  /\ pc = "sleep"
  /\ log' = Append(log, "sleep")
  /\ elapsed' = elapsed + SleepSeconds
  /\ pc' = "screenshot"
  /\ UNCHANGED << outcome, pending, failedAt, playwright, browser, page,
                  visited, files, visible, stdout, env >>

\* page.screenshot(path="/home/jules/verification/initial_load.png")
Screenshot ==
  /\ pc = "screenshot"
  /\ log' = Append(log, "screenshot")
  /\ \E d \in 0..MaxCallTime : elapsed' = elapsed + d
  /\ \E ok \in BOOLEAN :
       IF ok
       THEN /\ files' = files \cup {ScreenshotPath}
            /\ pc' = "is_visible"
            /\ UNCHANGED << pending, failedAt >>
       ELSE /\ files' = files
            /\ Raise("screenshot")
  /\ UNCHANGED << outcome, playwright, browser, page, visited, visible,
                  stdout, env >>

\* mutant: absence of the text is treated as an error
IsVisibleExpect ==
  /\ pc = "is_visible"
  /\ log' = Append(log, "is_visible")
  /\ \E ok \in BOOLEAN :
       IF ok /\ TextVisible(renderDelay, elapsed)
       THEN /\ visible' = "yes"
            /\ pc' = "print"
            /\ UNCHANGED << pending, failedAt >>
       ELSE /\ visible' = IF ok THEN "no" ELSE visible
            /\ Raise("is_visible")
  /\ UNCHANGED << outcome, playwright, browser, page, visited, elapsed,
                  files, stdout, env >>

\* page.get_by_text("Welcome to Pinn").is_visible()
IsVisible ==
  /\ pc = "is_visible"
  /\ log' = Append(log, "is_visible")
  /\ \E ok \in BOOLEAN :
       IF ok
       THEN /\ visible' = IF TextVisible(renderDelay, elapsed)
                          THEN "yes" ELSE "no"
            /\ pc' = "print"
            /\ UNCHANGED << pending, failedAt >>
       ELSE /\ visible' = visible
            /\ Raise("is_visible")
  /\ UNCHANGED << outcome, playwright, browser, page, visited, elapsed,
                  files, stdout, env >>

\* mutant: the two branches of the if are swapped
PrintSwapped ==
  /\ pc = "print"
  /\ log' = Append(log, "print")
  /\ stdout' = Append(stdout, IF visible = "yes" THEN MsgNotOnboarding
                                                 ELSE MsgOnboarding)
  /\ pc' = "close"
  /\ UNCHANGED << outcome, pending, failedAt, playwright, browser, page,
                  visited, elapsed, files, visible, env >>

\* if ...: print("Onboarding visible") else: print("Not on onboarding?")
PrintMessage ==
  /\ pc = "print"
  /\ log' = Append(log, "print")
  /\ stdout' = Append(stdout, IF visible = "yes" THEN MsgOnboarding
                                                 ELSE MsgNotOnboarding)
  /\ pc' = "close"
  /\ UNCHANGED << outcome, pending, failedAt, playwright, browser, page,
                  visited, elapsed, files, visible, env >>

\* ---- cleanup ----

\* mutant: the browser is closed once in the body and again in finally
CloseTwice ==
  /\ pc = "close"
  /\ log' = Append(log, "close")
  /\ browser' = "closed"
  /\ pc' = IF browser = "open" THEN "close" ELSE "with_exit"
  /\ UNCHANGED << outcome, pending, failedAt, playwright, page, visited,
                  elapsed, files, visible, stdout, env >>

\* finally: browser.close()
Close ==
  /\ pc = "close"
  /\ log' = Append(log, "close")
  /\ browser' = "closed"
  /\ pc' = "with_exit"
  /\ UNCHANGED << outcome, pending, failedAt, playwright, page, visited,
                  elapsed, files, visible, stdout, env >>

\* leaving the with block: the driver is stopped, a pending exception is
\* re-raised and ends the process
ExitWith ==
  /\ pc = "with_exit"
  /\ playwright' = "stopped"
  /\ outcome' = IF pending THEN "error" ELSE "ok"
  /\ pc' = "exit"
  /\ UNCHANGED << pending, failedAt, browser, page, visited, elapsed,
                  files, visible, stdout, log, env >>

Next ==
  \/ StartPlaywright
  \/ Launch
  \/ NewPage
  \/ Goto
  \/ Sleep
  \/ Screenshot
  \/ IsVisible
  \/ PrintMessage
  \/ Close
  \/ ExitWith

Spec == Init /\ [][Next]_vars

\* every call returns or raises, and the interpreter keeps running
FairSpec == Spec /\ WF_vars(Next)

\* ---- helpers for the properties ----

Terminated == pc = "exit"

Called(s) == \E i \in 1..Len(log) : log[i] = s

Count(s) == Cardinality({i \in 1..Len(log) : log[i] = s})

Printed(m) == \E i \in 1..Len(stdout) : stdout[i] = m

\* the browser was acquired
Launched == browser # "none"

\* verify_notes_load was entered
BodyEntered == Called("goto")

\* the calls of the log appear in program order, each at most once
InOrder ==
  \A i, j \in 1..Len(log) :
    i < j => StepIndex(log[i]) < StepIndex(log[j])

TypeOK ==
  /\ pc \in {"start", "launch", "new_page", "goto", "sleep", "screenshot",
             "is_visible", "print", "close", "with_exit", "exit"}
  /\ outcome \in {"running", "ok", "error"}
  /\ pending \in BOOLEAN
  /\ failedAt \in {"none", "start", "launch", "new_page"} \cup BodySteps
  /\ playwright \in {"none", "running", "stopped"}
  /\ browser \in {"none", "open", "closed"}
  /\ page \in {"none", "open"}
  /\ visible \in {"unknown", "yes", "no"}
  /\ files \subseteq {ScreenshotPath}
  /\ elapsed \in 0..(SleepSeconds + MaxCallTime)
  /\ serverUp \in BOOLEAN
  /\ renderDelay \in 0..MaxRenderDelay

\* ---- properties ----

\* C1 (as stated): in every terminal state of a run in which the browser was
\* launched, browser.close() has been executed.
C1_Original ==
  (Terminated /\ Launched) => Called("close")

\* C1 (amended): in every terminal state of a run in which
\* verify_notes_load was entered, whether it completed or failed at
\* navigation, screenshot or the visibility check, browser.close() has been
\* executed and the browser is closed.
C1_ClosedAfterBody ==
  (Terminated /\ BodyEntered) => (Called("close") /\ browser = "closed")

C1_Witness ==
  Terminated /\ failedAt = "screenshot" /\ browser = "closed"

\* C2: with the server unreachable no screenshot is written and nothing is
\* printed at any point, the navigation call raises, and the run ends in
\* the error state.
C2_ServerDown ==
  ~serverUp =>
    /\ files = {}
    /\ stdout = << >>
    /\ (Called("goto") => (failedAt = "goto" /\ pending))
    /\ (Terminated /\ Called("goto") => outcome = "error")

C2_Witness ==
  ~serverUp /\ Terminated /\ failedAt = "goto" /\ outcome = "error"

C5_FailurePropagates ==
  failedAt \in BodySteps =>
    /\ \A s \in {"goto", "sleep", "screenshot", "is_visible", "print"} :
         StepIndex(s) > StepIndex(failedAt) => ~Called(s)
    /\ stdout = << >>
    /\ outcome # "ok"
    /\ (Terminated => (outcome = "error" /\ Called("close")))

C5_Witness ==
  Terminated /\ failedAt = "screenshot" /\ outcome = "error"

\* C6 (as stated): against a reachable server "Not on onboarding?" is
\* never printed.
C6_Original ==
  serverUp => ~Printed(MsgNotOnboarding)

\* C6 (amended): against a reachable server, "Not on onboarding?" is never
\* printed when the application renders the onboarding text within the
\* fixed sleep; it is printed only when the text had not yet been rendered
\* at the visibility check.
C6_DeadOnlyIfRendered ==
  /\ (serverUp /\ renderDelay <= SleepSeconds) => ~Printed(MsgNotOnboarding)
  /\ Printed(MsgNotOnboarding) =>
       (visible = "no" /\ ~TextVisible(renderDelay, elapsed))

C6_Witness ==
  /\ Terminated
  /\ serverUp
  /\ renderDelay = SleepSeconds
  /\ stdout = << MsgOnboarding >>

\* C7: the calls happen in program order, each at most once; navigation is
\* attempted exactly once, to the fixed URL; the screenshot is written at
\* most once, after the sleep and before the visibility check; a message is
\* printed only after the screenshot was written.
C7_FixedOrder ==
  /\ InOrder
  /\ \A i \in 1..Len(visited) : visited[i] = Url
  /\ Len(visited) = Count("goto")
  /\ (page = "open" /\ pc # "goto") => Len(visited) = 1
  /\ Called("screenshot") => (Called("sleep") /\ elapsed >= SleepSeconds)
  /\ Called("is_visible") => files = {ScreenshotPath}
  /\ stdout # << >> => (files = {ScreenshotPath} /\ Len(stdout) = 1)

C7_Witness ==
  Terminated /\ log = StepOrder

\* C8: every run terminates, and a run that completed normally has printed
\* exactly one of the two messages.
C8_Terminates ==
  <>(/\ Terminated
     /\ outcome \in {"ok", "error"}
     /\ outcome = "ok" =>
          (Len(stdout) = 1 /\ stdout[1] \in {MsgOnboarding, MsgNotOnboarding}))

C8_Witness ==
  Terminated /\ outcome = "ok" /\ Len(stdout) = 1

\* C9: browser.close() is executed at most once and is the last call on the
\* browser; a page operation is performed only while the browser and the
\* page are open, never after close and never before launch and new_page
\* have succeeded.
C9_CloseLast ==
  /\ [](/\ Count("close") <= 1
        /\ Called("close") => log[Len(log)] = "close"
        /\ \A op \in PageOps : Called(op) =>
             (Called("launch") /\ Called("new_page") /\ page = "open"))
  /\ [][(Len(log') > Len(log) /\ log'[Len(log')] \in PageOps) =>
          (browser = "open" /\ page = "open")]_vars

C9_Witness ==
  Terminated /\ Called("is_visible") /\ log[Len(log)] = "close"

\* C10: when launch succeeds and new_page raises, the run ends in the error
\* state, verify_notes_load is never entered and the script's own
\* browser.close() is not executed; the driver is stopped by the with block.
C10_NewPageOutsideTry ==
  failedAt = "new_page" =>
    /\ ~BodyEntered
    /\ ~Called("close")
    /\ browser = "open"
    /\ (Terminated => (outcome = "error" /\ playwright = "stopped"))

C10_Witness ==
  Terminated /\ failedAt = "new_page" /\ browser = "open"

====
